---------------------------- MODULE Spec2Model ----------------------------
(***************************************************************************)
(* A model of the rule-based contract analyzer (src/contract_analyzer.py). *)
(*                                                                         *)
(* Texts are TLA+ strings.  The regular expressions of the pattern library *)
(* are written as syntax trees and matched by a backtracking matcher that  *)
(* follows the priority rules of Python's re module (leftmost match, the   *)
(* alternatives in order, greedy and lazy repetition), so that what a      *)
(* pattern captures is computed, not assumed.                              *)
(***************************************************************************)
EXTENDS Integers, Sequences, FiniteSets, TLC

(***************************************************************************)
(* Characters and strings                                                  *)
(***************************************************************************)
Ch(s, i) == SubSeq(s, i, i)

UC == "ABCDEFGHIJKLMNOPQRSTUVWXYZ"
LC == "abcdefghijklmnopqrstuvwxyz"
DG == "0123456789"

Upper == {Ch(UC, i) : i \in 1..Len(UC)}
Lower == {Ch(LC, i) : i \in 1..Len(LC)}
Digit == {Ch(DG, i) : i \in 1..Len(DG)}
Alpha == Upper \cup Lower
\* \w of a str pattern: letters, digits and the underscore
Word  == Alpha \cup Digit \cup {"_"}
\* \s, and the characters str.split() and str.strip() treat as blank
Space == {" ", "\t", "\n", "\r", "\f"}

LowerMap == [c \in Upper |-> Ch(LC, CHOOSE i \in 1..Len(UC) : Ch(UC, i) = c)]
UpperMap == [c \in Lower |-> Ch(UC, CHOOSE i \in 1..Len(LC) : Ch(LC, i) = c)]

LowerCh(c) == IF c \in Upper THEN LowerMap[c] ELSE c
UpperCh(c) == IF c \in Lower THEN UpperMap[c] ELSE c

\* the sequence a function on 1..n is, its elements computed
Tuple(f) == <<>> \o f

\* the integers of lo..hi that are in S, ascending
Ascending(S, lo, hi) ==
    LET InS(x) == x \in S
    IN  SelectSeq(Tuple([k \in 1..(hi - lo + 1) |-> lo + k - 1]), InS)

\* the strings parts[lo..hi] with sep between them
RECURSIVE JoinRange(_, _, _, _)
JoinRange(parts, sep, lo, hi) ==
    IF lo > hi THEN ""
    ELSE IF lo = hi THEN parts[lo]
    ELSE LET mid == (lo + hi) \div 2
         IN  JoinRange(parts, sep, lo, mid) \o sep
             \o JoinRange(parts, sep, mid + 1, hi)

\* sep.join(parts)
Join(parts, sep) == JoinRange(parts, sep, 1, Len(parts))

\* the sequences of seqs, one after the other: element m of sequence i is
\* numbered i * w + m, w being more than any of the lengths, and the
\* elements taken by ascending number
Flatten(seqs) ==
    LET w  == 1 + (CHOOSE x \in {Len(seqs[i]) : i \in 1..Len(seqs)} \cup {0} :
                     \A i \in 1..Len(seqs) : Len(seqs[i]) <= x)
        Has(key) == key % w >= 1 /\ key % w <= Len(seqs[key \div w])
        at == SelectSeq(Tuple([k \in 1..(Len(seqs) * w) |-> w + k - 1]), Has)
    IN  Tuple([k \in 1..Len(at) |-> seqs[at[k] \div w][at[k] % w]])

\* str.lower()
StrLower(s) == Join(Tuple([i \in 1..Len(s) |-> LowerCh(Ch(s, i))]), "")

\* str.isalpha()
IsAlpha(s) == Len(s) > 0 /\ \A i \in 1..Len(s) : Ch(s, i) \in Alpha

\* s without the leading and trailing characters that are in S
StripSet(s, S) ==
    LET Kept(i) == Ch(s, i) \notin S
        keep    == SelectSeq(Tuple([i \in 1..Len(s) |-> i]), Kept)
    IN  IF keep = <<>> THEN "" ELSE SubSeq(s, keep[1], keep[Len(keep)])

\* str.strip()
Strip(s) == StripSet(s, Space)

\* kw in low
Contains(low, kw) ==
    \E i \in 1..(Len(low) - Len(kw) + 1) : SubSeq(low, i, i + Len(kw) - 1) = kw

\* the pieces of s between the positions in cuts (a set of positions of s),
\* the characters at the cuts left out
Pieces(s, cuts) ==
    LET at == Ascending(cuts \cup {0, Len(s) + 1}, 0, Len(s) + 1)
    IN  Tuple([k \in 1..(Len(at) - 1) |-> SubSeq(s, at[k] + 1, at[k + 1] - 1)])

IsNonEmpty(s) == s # ""

\* text.split(): the pieces between blanks, the empty ones left out
SplitBlank(s) ==
    SelectSeq(Pieces(s, {i \in 1..Len(s) : Ch(s, i) \in Space}), IsNonEmpty)

\* s.split('\n')
SplitNewline(s) == Pieces(s, {i \in 1..Len(s) : Ch(s, i) = "\n"})

\* text.splitlines(): the lines of the text; a final line break starts no
\* further line
SplitLines(s) ==
    IF s = "" THEN <<>>
    ELSE IF Ch(s, Len(s)) = "\n" THEN SplitNewline(SubSeq(s, 1, Len(s) - 1))
    ELSE SplitNewline(s)

\* seq[:n]
Take(seq, n) == SubSeq(seq, 1, IF Len(seq) < n THEN Len(seq) ELSE n)

\* list(dict.fromkeys(seq)): the distinct elements in first-seen order
Dedup(seq) ==
    LET first == {i \in 1..Len(seq) : \A j \in 1..(i - 1) : seq[j] # seq[i]}
        at    == Ascending(first, 1, Len(seq))
    IN  Tuple([k \in 1..Len(at) |-> seq[at[k]]])

Range(seq) == {seq[i] : i \in 1..Len(seq)}

(***************************************************************************)
(* Regular expressions (module re)                                         *)
(***************************************************************************)
Inf == -1

Set(S)       == [op |-> "set", set |-> S]
NotSet(S)    == [op |-> "nset", set |-> S]
Dot          == [op |-> "any"]
Lit(s)       == [op |-> "lit", str |-> s]
Cat(kids)    == [op |-> "cat", kids |-> kids]
Alt(kids)    == [op |-> "alt", kids |-> kids]
Rep(kid, lo, hi, greedy) ==
    [op |-> "rep", kid |-> kid, lo |-> lo, hi |-> hi, greedy |-> greedy]
Grp(n, kid)  == [op |-> "grp", n |-> n, kid |-> kid]
WordB        == [op |-> "wordb"]

Plus(kid)     == Rep(kid, 1, Inf, TRUE)
Star(kid)     == Rep(kid, 0, Inf, TRUE)
Opt(kid)      == Rep(kid, 0, 1, TRUE)
LazyPlus(kid) == Rep(kid, 1, Inf, FALSE)

NoMatch == [ok |-> FALSE]
NoGroup == <<0, 0>>
NoCaps  == [n \in 1..3 |-> NoGroup]

IsWordAt(text, i) == i >= 1 /\ i <= Len(text) /\ Ch(text, i) \in Word

\* \b at position sp: between text[sp-1] and text[sp]
AtWordBoundary(text, sp) == IsWordAt(text, sp - 1) # IsWordAt(text, sp)

InSet(c, S, ic) == c \in S \/ (ic /\ (LowerCh(c) \in S \/ UpperCh(c) \in S))

\* whether node n, which matches one character, matches text[i]
OneChar(n) == n.op \in {"set", "nset", "any"}
CharOk(text, ic, n, i) ==
    /\ i >= 1 /\ i <= Len(text)
    /\ CASE n.op = "set"  -> InSet(Ch(text, i), n.set, ic)
         [] n.op = "nset" -> ~InSet(Ch(text, i), n.set, ic)
         [] n.op = "any"  -> Ch(text, i) # "\n"

\* whether the literal s lies at position sp
LitAt(text, ic, s, sp) ==
    /\ sp + Len(s) - 1 <= Len(text)
    /\ \A i \in 1..Len(s) :
          \/ Ch(text, sp + i - 1) = Ch(s, i)
          \/ ic /\ LowerCh(Ch(text, sp + i - 1)) = LowerCh(Ch(s, i))

\* how many characters from sp on a one-character node matches in a row
RunLength(text, ic, n, sp) ==
    (CHOOSE j \in sp..(Len(text) + 1) :
       /\ ~CharOk(text, ic, n, j)
       /\ \A i \in sp..(j - 1) : CharOk(text, ic, n, i)) - sp

\* The matcher.  A state is a position with the groups captured so far;
\* Ways(text, ic, n, st) is the sequence of the states in which a match of
\* node n that starts in state st can end, in the order a backtracking
\* matcher comes to them: the alternatives left to right, a greedy
\* repetition from the most repetitions down, a lazy one from the fewest up.
\* The first way of a whole pattern is the match re reports.
AllLits(kids) == \A i \in 1..Len(kids) : kids[i].op = "lit"

RECURSIVE Ways(_, _, _, _), CatRange(_, _, _, _, _, _), AltRange(_, _, _, _, _, _)
Ways(text, ic, n, st) ==
    CASE OneChar(n) ->
           IF CharOk(text, ic, n, st.pos)
           THEN <<[st EXCEPT !.pos = st.pos + 1]>> ELSE <<>>
      [] n.op = "lit" ->
           IF LitAt(text, ic, n.str, st.pos)
           THEN <<[st EXCEPT !.pos = st.pos + Len(n.str)]>> ELSE <<>>
      [] n.op = "wordb" ->
           IF AtWordBoundary(text, st.pos) THEN <<st>> ELSE <<>>
      [] n.op = "cat" -> CatRange(text, ic, n.kids, 1, Len(n.kids), <<st>>)
      [] n.op = "alt" /\ AllLits(n.kids) ->
           \* literals only: those found here, in the order they are written
           LET Here(k) == LitAt(text, ic, k.str, st.pos)
               hits    == SelectSeq(n.kids, Here)
           IN  Tuple([i \in 1..Len(hits) |->
                        [st EXCEPT !.pos = st.pos + Len(hits[i].str)]])
      [] n.op = "alt" /\ ~AllLits(n.kids) ->
           AltRange(text, ic, n.kids, 1, Len(n.kids), st)
      [] n.op = "grp" ->
           LET ends == Ways(text, ic, n.kid, st)
           IN  Tuple([i \in 1..Len(ends) |->
                        [ends[i] EXCEPT !.caps[n.n] = <<st.pos, ends[i].pos>>]])
      [] n.op = "rep" /\ OneChar(n.kid) ->
           LET run   == RunLength(text, ic, n.kid, st.pos)
               most  == IF n.hi # Inf /\ n.hi < run THEN n.hi ELSE run
           IN  Tuple([i \in 1..(most - n.lo + 1) |->
                        [st EXCEPT !.pos = st.pos + (IF n.greedy THEN most - i + 1
                                                     ELSE n.lo + i - 1)]])
      [] n.op = "rep" /\ ~OneChar(n.kid) /\ n.hi = 0 -> <<st>>
      [] n.op = "rep" /\ ~OneChar(n.kid) /\ n.hi = 1 /\ n.lo = 0 ->
           \* an optional node: with it first if greedy, without it first if lazy
           IF n.greedy THEN Ways(text, ic, n.kid, st) \o <<st>>
           ELSE <<st>> \o Ways(text, ic, n.kid, st)
      [] n.op = "rep" /\ ~OneChar(n.kid) /\ n.hi # 0 /\ ~(n.hi = 1 /\ n.lo = 0) ->
           \* once, and then as often as is left
           LET more == CatRange(text, ic,
                                <<n.kid,
                                  Rep(n.kid, IF n.lo > 0 THEN n.lo - 1 ELSE 0,
                                      IF n.hi = Inf THEN Inf ELSE n.hi - 1,
                                      n.greedy)>>, 1, 2, <<st>>)
           IN  IF n.lo > 0 THEN more
               ELSE IF n.greedy THEN more \o <<st>>
               ELSE <<st>> \o more

\* the ways to match kids[lo..hi] one after the other, from each of the
\* states sts in turn
CatRange(text, ic, kids, lo, hi, sts) ==
    IF sts = <<>> THEN <<>>
    ELSE IF lo = hi
    THEN (IF Len(sts) = 1 THEN Ways(text, ic, kids[lo], sts[1])
          ELSE Flatten(Tuple([j \in 1..Len(sts) |->
                                Ways(text, ic, kids[lo], sts[j])])))
    ELSE CatRange(text, ic, kids, ((lo + hi) \div 2) + 1, hi,
                  CatRange(text, ic, kids, lo, (lo + hi) \div 2, sts))

\* the ways to match kids[lo], then those to match kids[lo + 1], and so on
AltRange(text, ic, kids, lo, hi, st) ==
    IF lo = hi THEN Ways(text, ic, kids[lo], st)
    ELSE AltRange(text, ic, kids, lo, (lo + hi) \div 2, st)
         \o AltRange(text, ic, kids, ((lo + hi) \div 2) + 1, hi, st)

\* the match of pat that starts at position sp, as [ok, start, end, caps]
MatchAt(pat, ic, text, sp) ==
    LET ways == Ways(text, ic, pat, [pos |-> sp, caps |-> NoCaps])
    IN  IF ways = <<>> THEN NoMatch
        ELSE [ok |-> TRUE, start |-> sp, end |-> ways[1].pos,
              caps |-> ways[1].caps]

IsOk(m) == m.ok

\* the matches of pat at every position of the text where it matches, from
\* left to right
MatchesAt(pat, ic, text) ==
    SelectSeq(Tuple([p \in 1..(Len(text) + 1) |-> MatchAt(pat, ic, text, p)]),
              IsOk)

\* re.search(pat, text): the leftmost match
Search(pat, ic, text) ==
    LET all == MatchesAt(pat, ic, text)
    IN  IF all = <<>> THEN NoMatch ELSE all[1]

\* the matches a scan of the text reports: each starts where the one before
\* it ended, or later
RECURSIVE ScanFrom(_, _, _)
ScanFrom(all, i, from) ==
    IF i > Len(all) THEN <<>>
    ELSE IF all[i].start < from THEN ScanFrom(all, i + 1, from)
    ELSE <<all[i]>>
         \o ScanFrom(all, i + 1,
                     IF all[i].end > all[i].start THEN all[i].end
                     ELSE all[i].end + 1)

Scan(pat, ic, text) == ScanFrom(MatchesAt(pat, ic, text), 1, 1)

\* m.group(g) of a match; "" stands for None (the caller drops both)
GroupText(text, m, g) ==
    IF m.caps[g] = NoGroup THEN ""
    ELSE SubSeq(text, m.caps[g][1], m.caps[g][2] - 1)

\* re.findall(pat, text) for a pattern with no group (g = 0: the whole
\* matches) or one group (g = 1: what the group captured)
FindAll(pat, ic, text, g) ==
    LET ms == Scan(pat, ic, text)
    IN  Tuple([i \in 1..Len(ms) |->
                 IF g = 0 THEN SubSeq(text, ms[i].start, ms[i].end - 1)
                 ELSE GroupText(text, ms[i], g)])

\* re.sub(pat, repl, s): what lies between the matches, with repl in the
\* place of each
Sub(pat, repl, s) ==
    LET ms == Scan(pat, FALSE, s)
        n  == Len(ms)
    IN  Join(Tuple([i \in 1..(n + 1) |->
                      SubSeq(s, IF i = 1 THEN 1 ELSE ms[i - 1].end,
                                IF i = n + 1 THEN Len(s) ELSE ms[i].start - 1)]),
             repl)

(***************************************************************************)
(* Pattern library                                                         *)
(***************************************************************************)
S1 == Plus(Set(Space))        \* \s+
S0 == Star(Set(Space))        \* \s*
D  == Set(Digit)              \* \d
\* [A-Za-z0-9 ,]+
DateLike == Plus(Set(Alpha \cup Digit \cup {" ", ","}))
DashSlash == Set({"-", "/"})  \* [-/]

MonthNames ==
    <<"Jan", "Feb", "March", "Mar", "Apr", "May", "Jun", "Jul", "Aug", "Sep",
      "Sept", "Oct", "Nov", "Dec", "January", "February", "March", "April",
      "May", "June", "July", "August", "September", "October", "November",
      "December">>

DATE_PAT ==
    Grp(1, Alt(<<
      Cat(<<WordB, Rep(D, 1, 2, TRUE),
            Opt(Alt(<<Lit("st"), Lit("nd"), Lit("rd"), Lit("th")>>)), S1,
            Alt(Tuple([i \in 1..Len(MonthNames) |-> Lit(MonthNames[i])])), WordB, S1,
            Rep(D, 2, 4, TRUE)>>),
      Cat(<<WordB, Rep(D, 1, 2, TRUE), DashSlash, Rep(D, 1, 2, TRUE), DashSlash,
            Rep(D, 2, 4, TRUE), WordB>>),
      Cat(<<WordB, Rep(D, 4, 4, TRUE), DashSlash, Rep(D, 1, 2, TRUE), DashSlash,
            Rep(D, 1, 2, TRUE), WordB>>),
      Cat(<<WordB, Lit("effective"), S1, Lit("as"), S1, Lit("of"), S1, DateLike,
            WordB>>),
      Cat(<<WordB, Lit("effective"), S1, Lit("date"), S0, Opt(Set({":", "-"})),
            S0, DateLike, WordB>>)
    >>))

\* the fallback of extract_dates: \bon\s+[A-Za-z0-9 ,]+\s+\d{4}\b
DATE_FALLBACK ==
    Cat(<<WordB, Lit("on"), S1, DateLike, S1, Rep(D, 4, 4, TRUE), WordB>>)

\* \d[\d,]*(?:\.\d+)?
Amount == Cat(<<D, Star(Set(Digit \cup {","})), Opt(Cat(<<Lit("."), Plus(D)>>))>>)

MONEY_PAT ==
    Grp(1, Alt(<<
      Cat(<<WordB, Lit("₹"), Opt(Set(Space)), Amount, WordB>>),
      Cat(<<WordB, Lit("Rs"), Opt(Lit(".")), Opt(Set(Space)), Amount, WordB>>),
      Cat(<<WordB, Lit("USD"), Opt(Set(Space)), Amount, WordB>>),
      Cat(<<WordB, Lit("EUR"), Opt(Set(Space)), Amount, WordB>>),
      Cat(<<WordB, Amount, Opt(Set(Space)),
            Alt(<<Lit("dollars"), Lit("rupees"), Lit("INR"), Lit("USD"),
                  Lit("EUR")>>), WordB>>)
    >>))

OBL_KEYWORDS ==
    <<"shall", "must", "agree", "agrees", "obligat", "responsib", "undertake",
      "require", "warrant", "covenant", "will">>

TERMINATION_KEYWORDS ==
    <<"terminate", "termination", "expire", "expiry", "notice period", "notice",
      "breach", "cancel", "cancelled">>

\* \s+and\s+(.+?)\b with the group numbered g
AndSpan(g) == Cat(<<S1, Lit("and"), S1, Grp(g, LazyPlus(Dot)), WordB>>)

PARTY_PATTERNS == <<
    Cat(<<WordB, Lit("this"), S1, Lit("agreement"), S1, Opt(Cat(<<Lit("is"), S1>>)),
          Alt(<<Lit("made"), Cat(<<Lit("entered"), S1, Lit("into")>>)>>), S1,
          Opt(Cat(<<Lit("on"), S1, DateLike>>)), S0,
          Alt(<<Lit("between"), Lit("by and between")>>), S1,
          Grp(1, LazyPlus(Dot)), AndSpan(2)>>),
    Alt(<<Cat(<<WordB, Lit("between"), S1, Grp(1, LazyPlus(Dot)), S1, Lit("(")>>),
          Cat(<<Lit("between"), S1, Grp(2, LazyPlus(Dot)), AndSpan(3)>>)>>),
    Cat(<<WordB, Lit("by"), S1, Lit("and"), S1, Lit("between"), S1,
          Grp(1, LazyPlus(Dot)), AndSpan(2)>>)
>>

\* \s{2,}
BLANK_RUN == Rep(Set(Space), 2, Inf, TRUE)
\* \([^)]+\)
PARENTHETICAL == Cat(<<Lit("("), Plus(NotSet({")"})), Lit(")")>>)
\* \b([A-Z][A-Z0-9 &(),\.-]{3,})\b
CAPS_PAT ==
    Cat(<<WordB,
          Grp(1, Cat(<<Set(Upper),
                       Rep(Set(Upper \cup Digit \cup {" ", "&", "(", ")", ",", ".", "-"}),
                           3, Inf, TRUE)>>)),
          WordB>>)

(***************************************************************************)
(* The tokenizer and the stopword list (nltk): what the analyzer is given  *)
(***************************************************************************)
\* stopwords.words("english"), its one-word entries
STOPWORDS ==
    {"i", "me", "my", "myself", "we", "our", "ours", "ourselves", "you",
     "your", "yours", "yourself", "yourselves", "he", "him", "his",
     "himself", "she", "her", "hers", "herself", "it", "its", "itself",
     "they", "them", "their", "theirs", "themselves", "what", "which",
     "who", "whom", "this", "that", "these", "those", "am", "is", "are",
     "was", "were", "be", "been", "being", "have", "has", "had", "having",
     "do", "does", "did", "doing", "a", "an", "the", "and", "but", "if",
     "or", "because", "as", "until", "while", "of", "at", "by", "for",
     "with", "about", "against", "between", "into", "through", "during",
     "before", "after", "above", "below", "to", "from", "up", "down", "in",
     "out", "on", "off", "over", "under", "again", "further", "then",
     "once", "here", "there", "when", "where", "why", "how", "all", "any",
     "both", "each", "few", "more", "most", "other", "some", "such", "no",
     "nor", "not", "only", "own", "same", "so", "than", "too", "very", "s",
     "t", "can", "will", "just", "don", "should", "now", "d", "ll", "m",
     "o", "re", "ve", "y", "ain", "aren", "couldn", "didn", "doesn",
     "hadn", "hasn", "haven", "isn", "ma", "mightn", "mustn", "needn",
     "shan", "shouldn", "wasn", "weren", "won", "wouldn"}

SentEnd == {".", "!", "?"}
Punct   == {".", ",", ";", ":", "!", "?", "(", ")"}

\* sent_tokenize(text): a sentence ends at a '.', '!' or '?' that a blank
\* follows; the sentences come without the blanks around them and none is
\* empty
sent_tokenize(t) ==
    LET breaks == {i \in 1..Len(t) :
                     /\ i > 1 /\ Ch(t, i) \in Space /\ Ch(t, i - 1) \in SentEnd}
        pieces == Pieces(t, breaks)
    IN  SelectSeq(Tuple([k \in 1..Len(pieces) |-> Strip(pieces[k])]), IsNonEmpty)

\* the tokens of one blank-free chunk: its punctuation at either end apart,
\* the rest one token
ChunkTokens(chunk) ==
    LET NoPunct(i) == Ch(chunk, i) \notin Punct
        inner == SelectSeq(Tuple([i \in 1..Len(chunk) |-> i]), NoPunct)
        first == IF inner = <<>> THEN Len(chunk) + 1 ELSE inner[1]
        last  == IF inner = <<>> THEN Len(chunk) ELSE inner[Len(inner)]
    IN  Tuple([i \in 1..(first - 1) |-> Ch(chunk, i)])
        \o (IF inner = <<>> THEN <<>> ELSE <<SubSeq(chunk, first, last)>>)
        \o Tuple([i \in 1..(Len(chunk) - last) |-> Ch(chunk, last + i)])

\* word_tokenize(text)
word_tokenize(t) ==
    LET chunks == SplitBlank(t)
    IN  Flatten(Tuple([i \in 1..Len(chunks) |-> ChunkTokens(chunks[i])]))

(***************************************************************************)
(* The extractors                                                          *)
(***************************************************************************)
MaxParties     == 2
MaxDates       == 10
MaxMoney       == 10
MaxObligations == 10
MaxTermination == 8
TopN           == 12
HeadLines      == 40
SummaryLen     == 4

StripAll(seq) == Tuple([i \in 1..Len(seq) |-> Strip(seq[i])])

\* [m for grp in matches for m in grp.split('\n') if m]
FlattenLines(matches) ==
    Flatten(Tuple([i \in 1..Len(matches) |->
                     SelectSeq(SplitNewline(matches[i]), IsNonEmpty)]))

\* list(a set of str): the elements in the order of the process's string
\* hashes.  The order is fixed within a process and differs between
\* processes (hash randomization); seed s stands for a process whose order
\* is the discovery order rotated by s places.
SetOrder(distinct, s) ==
    LET n == Len(distinct)
    IN  Tuple([i \in 1..n |-> distinct[((i - 1 + s) % n) + 1]])

\* ' '.join(text.split())
Collapse(t) == Join(SplitBlank(t), " ")

CleanSpan(g) == Strip(Sub(PARENTHETICAL, "", Strip(Sub(BLANK_RUN, " ", g))))

\* the groups of a match that took part, each cleaned
CleanedGroups(tc, m) ==
    LET groups == SelectSeq(Tuple([g \in 1..3 |-> GroupText(tc, m, g)]),
                            IsNonEmpty)
    IN  Tuple([i \in 1..Len(groups) |-> CleanSpan(groups[i])])

\* if g_clean and len(g_clean) > 2
IsSpan(g_clean) == g_clean # "" /\ Len(g_clean) > 2

\* the loop over caps of the heading fallback
RECURSIVE UniqFrom(_, _, _)
UniqFrom(caps, i, uniq) ==
    IF i > Len(caps) THEN uniq
    ELSE LET c_s == Strip(caps[i])
             u   == IF StrLower(c_s) \notin STOPWORDS /\ Len(c_s) > 3
                       /\ c_s \notin Range(uniq)
                    THEN Append(uniq, c_s) ELSE uniq
         IN  IF Len(u) >= 2 THEN u ELSE UniqFrom(caps, i + 1, u)

\* "\n".join(text.splitlines()[:40])
HeadOf(t) == Join(Take(SplitLines(t), HeadLines), "\n")

\* a variant of the test below that compares the sentence as it is written
KeywordHitExact(s, keywords) ==
    \E k \in 1..Len(keywords) : Contains(s, keywords[k])

\* for kw in keywords: if kw in low
KeywordHit(s, keywords) ==
    LET low == StrLower(s)
    IN  \E k \in 1..Len(keywords) : Contains(low, keywords[k])

find_sentences_by_keywords(t, keywords) ==
    LET Hit(s)  == KeywordHit(s, keywords)
        results == SelectSeq(sent_tokenize(t), Hit)
    IN  StripAll(results)

IsContentWord(w) == IsAlpha(w) /\ StrLower(w) \notin STOPWORDS

Count(words, w) == Cardinality({i \in 1..Len(words) : words[i] = w})

\* a variant of the ranking below in which, of words counted equally often,
\* the one seen later comes first
MostCommonLatestFirst(words, n) ==
    LET keys    == Dedup(words)
        cnt     == Tuple([i \in 1..Len(keys) |-> Count(words, keys[i])])
        Before(i, j) == cnt[i] > cnt[j] \/ (cnt[i] = cnt[j] /\ i > j)
        Rank(i) == 1 + Cardinality({j \in 1..Len(keys) : Before(j, i)})
        sorted  == Tuple([r \in 1..Len(keys) |->
                            keys[CHOOSE i \in 1..Len(keys) : Rank(i) = r]])
    IN  Take(sorted, n)

\* Counter(words).most_common(n): the distinct words in first-seen order,
\* sorted by count, largest first, equal counts keeping their order
\* (heapq.nlargest is sorted(..., reverse=True)[:n], a stable sort)
MostCommon(words, n) ==
    LET keys    == Dedup(words)
        cnt     == Tuple([i \in 1..Len(keys) |-> Count(words, keys[i])])
        Before(i, j) == cnt[i] > cnt[j] \/ (cnt[i] = cnt[j] /\ i < j)
        Rank(i) == 1 + Cardinality({j \in 1..Len(keys) : Before(j, i)})
        sorted  == Tuple([r \in 1..Len(keys) |->
                            keys[CHOOSE i \in 1..Len(keys) : Rank(i) = r]])
    IN  Take(sorted, n)

keyword_summary(t, top_n) ==
    LET kept  == SelectSeq(word_tokenize(t), IsContentWord)
        words == Tuple([i \in 1..Len(kept) |-> StrLower(kept[i])])
    IN  MostCommon(words, top_n)

\* a variant of the summary below that joins all the sentences
ShortSummaryAll(sents) == Join(sents, " ")

\* ' '.join(sents[:4]) if sents else ''
ShortSummary(sents) ==
    IF sents # <<>> THEN Join(Take(sents, SummaryLen), " ") ELSE ""

(***************************************************************************)
(* The texts analysed                                                      *)
(***************************************************************************)
\* how many items the generated documents hold at most, and how many lines
\* beyond the head of a document the heading of a generated document lies
DocDates   == 11
DocMoney   == 11
DocSents   == 14
DocWords   == 13
ExtraLines == 1
MaxSeed    == 1

Seeds == 0..MaxSeed

RECURSIVE NumStr(_)
NumStr(i) ==
    IF i < 10 THEN Ch(DG, i + 1) ELSE NumStr(i \div 10) \o Ch(DG, (i % 10) + 1)

Scenarios == <<
    "This Agreement is made between Acme Corp and Beta LLC on 1 January 2024. Acme shall pay Beta ₹50,000 within 30 days. This Agreement may be terminated with 30 days notice.",
    "",
    " \n ",
    "Contract between Foo and Foo. Foo must pay 30 dollars or 30 dollars.",
    "SERVICE AGREEMENT\nACME HOLDINGS LTD\nBETA LIMITED\nFees apply from 2024-01-05.",
    "Lease between Acme Corp (the Owner) and Beta. It will expire on 5 May 2025.",
    "Deal between A and B. Made by and between Acme and Beta.",
    "Talks between Acme and Beta ended. This agreement is made between A and B.",
    "This Agreement is entered into\nby  and between Acme  Corp\nand Beta on 3rd March 2024.",
    "THIS AGREEMENT is made on 1 May 2024 between ab and cd. WILL pay USD 20.",
    "Signed 1\nJanuary 2024, effective as of 2 June 2024. ₹50 or a₹60 or Rs. 1,500.50 due.",
    "Zeta pays alpha. Alpha pays zeta! Omega waits? The zeta is here",
    "Owner shall give notice. Owner shall give notice. Tenant agrees. Rent is due. Lease ends."
>>

\* a document with k dates, the first of them written once more at the end
DateDoc(k) ==
    "Due " \o Join([i \in 1..k |-> NumStr(i) \o "/1/21"], ", ")
    \o (IF k > 0 THEN " or 1/1/21." ELSE "none.")

\* a document with k amounts, the first of them written once more at the end
MoneyDoc(k) ==
    "Pay " \o Join([i \in 1..k |-> "Rs " \o NumStr(i)], ", ")
    \o (IF k > 0 THEN " and Rs 1." ELSE "nothing.")

\* a document of n sentences: the 3rd holds no keyword, the 5th an
\* obligation keyword only, the 7th a termination keyword only, the others
\* one of each
ClauseSentence(i) ==
    "Party " \o NumStr(i)
    \o (IF i = 3 THEN " pays fees."
        ELSE IF i = 5 THEN " must pay."
        ELSE IF i = 7 THEN " gave Notice."
        ELSE " SHALL cancel.")
ClauseDoc(n) == Join([i \in 1..n |-> ClauseSentence(i)], " ")

\* a document of k distinct words; word i is written once, and once more
\* after the others if i is even
Vocabulary ==
    <<"rent", "lease", "owner", "tenant", "fee", "term", "date", "law", "seal",
      "land", "bank", "loan", "deed", "heir", "lien", "bond">>
WordDoc(k) ==
    LET once  == Join([i \in 1..k |-> Vocabulary[i]], " ")
        again == Join(SelectSeq([i \in 1..k |-> IF i % 2 = 0 THEN Vocabulary[i] ELSE ""],
                                IsNonEmpty), ", ")
    IN  once \o " of " \o again

\* a document whose heading is line n + 1, after n lines that hold none
HeadDoc(n) == Join([i \in 1..n |-> "x"], "\n") \o "\nACME HOLDINGS\nBETA LIMITED"

Texts ==
    Range(Scenarios)
    \cup {DateDoc(k) : k \in 0..DocDates}
    \cup {MoneyDoc(k) : k \in 0..DocMoney}
    \cup {ClauseDoc(n) : n \in 0..DocSents}
    \cup {WordDoc(k) : k \in 0..DocWords}
    \cup {HeadDoc(n) : n \in (HeadLines - 2)..(HeadLines + ExtraLines)}

(***************************************************************************)
(* analyze_contract, statement by statement                                *)
(***************************************************************************)
VARIABLES
    text,         \* the text load_file returned
    seed,         \* the string hash seed of the process
    pc,           \* the statement analyze_contract is at
    pat,          \* extract_parties: the index of the pattern of this pass
    m,            \* extract_parties: the match of that pattern
    tried,        \* extract_parties: per pass so far, the pattern searched
                  \* for and the cleaned groups of its match
    source,       \* extract_parties: what supplied the parties
    caps,         \* extract_parties: the upper-case runs of the head
    matches,      \* extract_dates, extract_money: what re.findall returned
    fallback,     \* extract_dates: what the fallback pattern found
    parties, dates, money, obligations, termination, keywords,
    result,       \* the record analyze_contract returns
    prev          \* the record an earlier run on the same text returned

vars == <<text, seed, pc, pat, m, tried, source, caps, matches, fallback,
          parties, dates, money, obligations, termination, keywords, result,
          prev>>

None == [none |-> TRUE]

Init ==
    /\ text \in Texts
    /\ seed \in Seeds
    /\ pc = "parties"
    /\ pat = 1
    /\ m = NoMatch
    /\ tried = <<>>
    /\ source = "none"
    /\ caps = <<>>
    /\ matches = <<>>
    /\ fallback = <<>>
    /\ parties = <<>>
    /\ dates = <<>>
    /\ money = <<>>
    /\ obligations = <<>>
    /\ termination = <<>>
    /\ keywords = <<>>
    /\ result = None
    /\ prev = None

\* extract_parties, a pass of its loop: pattern pat is searched for in the
\* one-line text
SearchPattern ==
    /\ pc = "parties"
    /\ pat <= Len(PARTY_PATTERNS)
    /\ m' = Search(PARTY_PATTERNS[pat], TRUE, Collapse(text))
    /\ pc' = "groups"
    /\ UNCHANGED <<text, seed, pat, tried, source, caps, matches, fallback,
                   parties, dates, money, obligations, termination, keywords,
                   result, prev>>

\* the spans of more than 2 characters among cleaned groups
Spans(cleaned) == SelectSeq(cleaned, IsSpan)

\* a variant of the step below in which the loop is never left early: every
\* pattern is searched for and adds its spans to found
CollectSpansOn ==
    /\ pc = "groups"
    /\ LET cleaned == IF m.ok THEN CleanedGroups(Collapse(text), m) ELSE <<>>
           found   == parties \o Spans(cleaned)
       IN  /\ tried' = Append(tried, [rule |-> pat, cleaned |-> cleaned])
           /\ parties' = Take(found, MaxParties)
           /\ source' = IF found # <<>> THEN "pattern" ELSE source
           /\ pat' = IF found # <<>> /\ pat = Len(PARTY_PATTERNS) THEN pat
                     ELSE pat + 1
           /\ pc' = IF found # <<>> /\ pat = Len(PARTY_PATTERNS) THEN "dates"
                    ELSE "parties"
    /\ UNCHANGED <<text, seed, m, caps, matches, fallback, dates, money,
                   obligations, termination, keywords, result, prev>>

\* extract_parties, the rest of the pass: the cleaned groups of the match that
\* are long enough go to found; if found holds any, the loop is left and
\* found[:2] returned
CollectSpans ==
    /\ pc = "groups"
    /\ LET cleaned == IF m.ok THEN CleanedGroups(Collapse(text), m) ELSE <<>>
           found   == Spans(cleaned)
       IN  /\ tried' = Append(tried, [rule |-> pat, cleaned |-> cleaned])
           /\ IF found # <<>>
              THEN /\ parties' = Take(found, MaxParties)
                   /\ source' = "pattern"
                   /\ pc' = "dates"
                   /\ pat' = pat
              ELSE /\ pat' = pat + 1
                   /\ pc' = "parties"
                   /\ UNCHANGED <<parties, source>>
    /\ UNCHANGED <<text, seed, m, caps, matches, fallback, dates, money,
                   obligations, termination, keywords, result, prev>>

\* extract_parties after a loop that found nothing: the upper-case runs of
\* the first lines of the text
HeadingCaps ==
    /\ pc = "parties"
    /\ pat > Len(PARTY_PATTERNS)
    /\ caps' = FindAll(CAPS_PAT, FALSE, HeadOf(text), 1)
    /\ pc' = "heading"
    /\ UNCHANGED <<text, seed, pat, m, tried, source, matches, fallback,
                   parties, dates, money, obligations, termination, keywords,
                   result, prev>>

\* the first two distinct ones among them are the parties
HeadingFallback ==
    /\ pc = "heading"
    /\ parties' = Take(UniqFrom(caps, 1, <<>>), MaxParties)
    /\ source' = "heading"
    /\ pc' = "dates"
    /\ UNCHANGED <<text, seed, pat, m, tried, caps, matches, fallback, dates,
                   money, obligations, termination, keywords, result, prev>>

\* extract_dates: re.findall(DATE_PAT, text, flags=re.IGNORECASE)
DateMatches ==
    /\ pc = "dates"
    /\ matches' = FindAll(DATE_PAT, TRUE, text, 1)
    /\ pc' = "fallback"
    /\ UNCHANGED <<text, seed, pat, m, tried, source, caps, fallback,
                   parties, dates, money, obligations, termination, keywords,
                   result, prev>>

\* extract_dates: the fallback pattern
DateFallback ==
    /\ pc = "fallback"
    /\ fallback' = FindAll(DATE_FALLBACK, TRUE, text, 0)
    /\ pc' = "date_set"
    /\ UNCHANGED <<text, seed, pat, m, tried, source, caps, matches, parties,
                   dates, money, obligations, termination, keywords, result,
                   prev>>

\* list({m.strip() for m in flat + fallback}) in a process of hash seed s
DateSet(found, extra, s) ==
    SetOrder(Dedup(StripAll(FlattenLines(found) \o extra)), s)

\* a variant of the step below that returns the whole list
DateReturnAll ==
    /\ pc = "date_set"
    /\ dates' = DateSet(matches, fallback, seed)
    /\ pc' = "money"
    /\ UNCHANGED <<text, seed, pat, m, tried, source, caps, matches, fallback,
                   parties, money, obligations, termination, keywords, result,
                   prev>>

\* extract_dates: the set of the stripped matches as a list, and its first 10
DateReturn ==
    /\ pc = "date_set"
    /\ dates' = Take(DateSet(matches, fallback, seed), MaxDates)
    /\ pc' = "money"
    /\ UNCHANGED <<text, seed, pat, m, tried, source, caps, matches,
                   fallback, parties, money, obligations, termination,
                   keywords, result, prev>>

\* extract_money: re.findall(MONEY_PAT, text, flags=re.IGNORECASE)
MoneyMatches ==
    /\ pc = "money"
    /\ matches' = FindAll(MONEY_PAT, TRUE, text, 1)
    /\ pc' = "money_list"
    /\ UNCHANGED <<text, seed, pat, m, tried, source, caps, fallback,
                   parties, dates, money, obligations, termination, keywords,
                   result, prev>>

\* extract_money: list(dict.fromkeys(cleaned))[:10]
MoneyReturn ==
    /\ pc = "money_list"
    /\ money' = Take(Dedup(StripAll(matches)), MaxMoney)
    /\ pc' = "obligations"
    /\ UNCHANGED <<text, seed, pat, m, tried, source, caps, matches,
                   fallback, parties, dates, obligations, termination,
                   keywords, result, prev>>

FindObligations ==
    /\ pc = "obligations"
    /\ obligations' = find_sentences_by_keywords(text, OBL_KEYWORDS)
    /\ pc' = "termination"
    /\ UNCHANGED <<text, seed, pat, m, tried, source, caps, matches,
                   fallback, parties, dates, money, termination, keywords,
                   result, prev>>

FindTermination ==
    /\ pc = "termination"
    /\ termination' = find_sentences_by_keywords(text, TERMINATION_KEYWORDS)
    /\ pc' = "keywords"
    /\ UNCHANGED <<text, seed, pat, m, tried, source, caps, matches,
                   fallback, parties, dates, money, obligations, keywords,
                   result, prev>>

KeywordSummary ==
    /\ pc = "keywords"
    /\ keywords' = keyword_summary(text, TopN)
    /\ pc' = "summary"
    /\ UNCHANGED <<text, seed, pat, m, tried, source, caps, matches,
                   fallback, parties, dates, money, obligations, termination,
                   result, prev>>

\* the short summary and the record
Assemble ==
    /\ pc = "summary"
    /\ result' = [parties               |-> parties,
                  dates_found           |-> dates,
                  money_values          |-> money,
                  obligation_sentences  |-> Take(obligations, MaxObligations),
                  termination_sentences |-> Take(termination, MaxTermination),
                  top_keywords          |-> keywords,
                  short_summary         |-> ShortSummary(sent_tokenize(text))]
    /\ pc' = "done"
    /\ UNCHANGED <<text, seed, pat, m, tried, source, caps, matches,
                   fallback, parties, dates, money, obligations, termination,
                   keywords, prev>>

\* the same text is analysed once more, by a process of its own
Rerun ==
    /\ pc = "done"
    /\ prev = None
    /\ prev' = result
    /\ seed' \in Seeds
    /\ pc' = "parties"
    /\ pat' = 1
    /\ m' = NoMatch
    /\ tried' = <<>>
    /\ source' = "none"
    /\ caps' = <<>>
    /\ matches' = <<>>
    /\ fallback' = <<>>
    /\ parties' = <<>>
    /\ dates' = <<>>
    /\ money' = <<>>
    /\ obligations' = <<>>
    /\ termination' = <<>>
    /\ keywords' = <<>>
    /\ result' = None
    /\ UNCHANGED text

Next ==
    \/ SearchPattern
    \/ CollectSpans
    \/ HeadingCaps
    \/ HeadingFallback
    \/ DateMatches
    \/ DateFallback
    \/ DateReturn
    \/ MoneyMatches
    \/ MoneyReturn
    \/ FindObligations
    \/ FindTermination
    \/ KeywordSummary
    \/ Assemble
    \/ Rerun

Spec == Init /\ [][Next]_vars

(***************************************************************************)
(* Properties of the returned record                                       *)
(***************************************************************************)
Returned == pc = "done"

\* no two entries of a list are the same once trimmed
NoRepeat(seq) ==
    \A i, j \in 1..Len(seq) : i # j => Strip(seq[i]) # Strip(seq[j])

\* C1: the record analyze_contract returns holds at most 2 parties, 10
\* dates, 10 money values, 10 obligation sentences, 8 termination sentences
\* and 12 keywords, whatever supplied the parties and however much the text
\* holds.
C1_Caps ==
    Returned =>
        /\ Len(result.parties) <= 2
        /\ Len(result.dates_found) <= 10
        /\ Len(result.money_values) <= 10
        /\ Len(result.obligation_sentences) <= 10
        /\ Len(result.termination_sentences) <= 8
        /\ Len(result.top_keywords) <= 12

\* a text of more than 10 distinct dates has been analysed, and 10 returned
C1_Witness ==
    /\ Returned
    /\ text = DateDoc(DocDates)
    /\ DocDates > 10
    /\ Len(result.dates_found) = 10

\* C2: in the returned record no two dates, no two money values and no two
\* parties are the same string once trimmed.
C2_NoDuplicates ==
    Returned =>
        /\ NoRepeat(result.dates_found)
        /\ NoRepeat(result.money_values)
        /\ NoRepeat(result.parties)

\* C3: two runs of the analysis on one text return the same record, field
\* by field, the order of the dates and the dates retained included.
C3_SameRecord == (Returned /\ prev # None) => result = prev

\* C4: for the text of the worked scenario the parties hold "Acme Corp" and
\* after it "Beta LLC", the whole name of the second party.
C4_WholeSecondParty ==
    (Returned /\ text = Scenarios[1]) =>
        \E i, j \in 1..Len(result.parties) :
            /\ i < j
            /\ result.parties[i] = "Acme Corp"
            /\ result.parties[j] = "Beta LLC"

\* C5: for the text of the worked scenario, where the rupee sign follows a
\* blank, the money values hold "₹50,000".
C5_RupeeAmount ==
    (Returned /\ text = Scenarios[1]) =>
        "₹50,000" \in Range(result.money_values)

\* the lowercase alphabetic non-stopword tokens of a text, in text order
WordsOf(t) ==
    LET kept == SelectSeq(word_tokenize(t), IsContentWord)
    IN  Tuple([i \in 1..Len(kept) |-> StrLower(kept[i])])

FirstAt(words, w) ==
    CHOOSE i \in 1..Len(words) :
        words[i] = w /\ \A j \in 1..(i - 1) : words[j] # w

\* v is the more frequent word, or as frequent as w and seen first
Ahead(words, v, w) ==
    \/ Count(words, v) > Count(words, w)
    \/ /\ Count(words, v) = Count(words, w)
       /\ FirstAt(words, v) < FirstAt(words, w)

\* C6: top_keywords lists lowercase alphabetic non-stopword tokens of the
\* text, a more frequent word before a less frequent one and, of two words
\* equally frequent, the one that occurs first in the text before the other;
\* a word left out ranks after all 12 listed; the list is empty when the
\* text has no such word.
C6_KeywordRanking ==
    Returned =>
        LET words == WordsOf(text)
            kw    == result.top_keywords
        IN  /\ Range(kw) \subseteq Range(words)
            /\ \A i, j \in 1..Len(kw) : i < j => Ahead(words, kw[i], kw[j])
            /\ \A w \in Range(words) \ Range(kw) :
                   /\ Len(kw) = 12
                   /\ \A i \in 1..Len(kw) : Ahead(words, kw[i], w)
            /\ (words = <<>> => kw = <<>>)

\* a text has been analysed in which two words are equally frequent and
\* another is more frequent than both
C6_Witness ==
    /\ Returned
    /\ LET words == WordsOf(text)
           kw    == result.top_keywords
       IN  \E i \in 1..(Len(kw) - 2) :
               /\ Count(words, kw[i]) > Count(words, kw[i + 1])
               /\ Count(words, kw[i + 1]) = Count(words, kw[i + 2])

\* the positions of the sentences whose lowercase form holds a keyword
HitPositions(sents, kws) ==
    {i \in 1..Len(sents) :
        \E k \in 1..Len(kws) : Contains(StrLower(sents[i]), kws[k])}

\* the sentences at the first cap of these positions, trimmed
Kept(sents, kws, cap) ==
    LET hits   == HitPositions(sents, kws)
        Nth(j) == CHOOSE i \in hits : Cardinality({h \in hits : h < i}) = j - 1
        n      == IF Cardinality(hits) < cap THEN Cardinality(hits) ELSE cap
    IN  Tuple([j \in 1..n |-> Strip(sents[Nth(j)])])

\* C7: obligation_sentences is the first 10, termination_sentences the
\* first 8, of the tokenizer's sentences, in document order and trimmed,
\* whose lowercase form holds a keyword of the list: one entry per sentence
\* position, none before the cap left out, each list on its own.
C7_ClauseLists ==
    Returned =>
        LET sents == sent_tokenize(text)
        IN  /\ result.obligation_sentences = Kept(sents, OBL_KEYWORDS, 10)
            /\ result.termination_sentences
                 = Kept(sents, TERMINATION_KEYWORDS, 8)

\* a text has been analysed that holds more than 10 obligation and more
\* than 8 termination sentences, a sentence of neither kind and a sentence
\* of both
C7_Witness ==
    /\ Returned
    /\ LET sents == sent_tokenize(text)
           obl   == HitPositions(sents, OBL_KEYWORDS)
           ter   == HitPositions(sents, TERMINATION_KEYWORDS)
       IN  /\ Cardinality(obl) > 10
           /\ Cardinality(ter) > 8
           /\ 1..Len(sents) # obl \cup ter
           /\ obl \cap ter # {}
    /\ Len(result.obligation_sentences) = 10
    /\ Len(result.termination_sentences) = 8

\* C8: short_summary is the first min(4, n) of the n sentences of the text,
\* in document order, with one blank between two; it is empty if and only
\* if n = 0.
C8_ShortSummary ==
    Returned =>
        LET sents == sent_tokenize(text)
            n     == Len(sents)
        IN  /\ result.short_summary
                 = CASE n = 0 -> ""
                     [] n = 1 -> sents[1]
                     [] n = 2 -> sents[1] \o " " \o sents[2]
                     [] n = 3 -> sents[1] \o " " \o sents[2] \o " " \o sents[3]
                     [] n > 3 -> sents[1] \o " " \o sents[2] \o " " \o sents[3]
                                 \o " " \o sents[4]
            /\ (result.short_summary = "" <=> n = 0)

\* a text of more than 4 sentences has been analysed
C8_Witness ==
    /\ Returned
    /\ Len(sent_tokenize(text)) > 4
    /\ result.short_summary # ""

\* C9: extract_dates returns the distinct trimmed date strings in the order
\* they were found, the matches of the date pattern before those of the
\* fallback, and of more than 10 the first 10 found.
C9_DiscoveryOrder ==
    pc = "money" =>
        dates = Take(Dedup(StripAll(FlattenLines(matches) \o fallback)), 10)

\* the pass yields a cleaned span of 3 or more characters
Yields(pass) == \E i \in 1..Len(pass.cleaned) : Len(pass.cleaned[i]) >= 3

\* its cleaned spans of 3 or more characters
LongSpans(pass) ==
    LET Long(c) == Len(c) >= 3
    IN  SelectSeq(pass.cleaned, Long)

\* the first lines of a text
FirstLines(t, n) == Join(Take(SplitLines(t), n), "\n")

\* C10: once extract_parties has returned, the rules were tried in their
\* order, none after the first that yields a span of 3 or more characters;
\* the parties are the first spans of that rule alone, or, if and only if
\* none of the three rules yields such a span, found in the first 40 lines
\* of the text; every party has 3 or more characters.
C10_OneSource ==
    pc \notin {"parties", "groups", "heading"} =>
        LET k == Len(tried)
        IN  /\ \A j \in 1..k : tried[j].rule = j
            /\ \A j \in 1..(k - 1) : ~Yields(tried[j])
            /\ source \in {"pattern", "heading"}
            /\ source = "pattern" =>
                   /\ k >= 1
                   /\ Yields(tried[k])
                   /\ parties = Take(LongSpans(tried[k]), 2)
            /\ source = "heading" <=> (k = 3 /\ \A j \in 1..3 : ~Yields(tried[j]))
            /\ source = "heading" =>
                   \A i \in 1..Len(parties) :
                       Contains(FirstLines(text, 40), parties[i])
            /\ \A i \in 1..Len(parties) : Len(parties[i]) >= 3

\* a text has been analysed whose second rule matched without a span long
\* enough, and whose third rule supplied the parties
C10_Witness ==
    /\ Returned
    /\ source = "pattern"
    /\ Len(tried) = 3
    /\ tried[2].cleaned # <<>>
    /\ parties # <<>>

=============================================================================
